---- MODULE Spec2Model ----
(***************************************************************************)
(* Model of the PostActor (the "Content Actor") of GatorSwamp: its cache   *)
(* (postsByID, postVotes, subredditPosts), the posts collection of the     *)
(* MongoDB store it writes through to, and the messages it processes.      *)
(* Each action is one message handled by PostActor.Receive, start to end.  *)
(* A handler is written as an operator that gives, for the state the       *)
(* message finds, the handler's whole outcome: the cache and the store it  *)
(* leaves, what it passes to context.Respond and what it sends on.  The    *)
(* action applies that outcome, and the properties read it.                *)
(* Post titles, contents, names and timestamps play no part in any checked *)
(* property and are left out of the records.                               *)
(***************************************************************************)
EXTENDS Integers, Sequences, FiniteSets, TLC

\* ---------------------------------------------------------------- bounds
MaxPosts == 1       \* post IDs that exist or can be generated
MaxVoters == 1      \* users who vote
MaxVotes == 2       \* votes per run that get past the duplicate check

PostIDs == 1..MaxPosts
VoterIDs == 1..MaxVoters
\* votes past the duplicate check in a run with the request handlers
MaxServerVotes == MaxVotes - 1
\* the accounts and subreddits of the store; ID 0 stands for a well-formed
\* UUID that resolves to no account / no subreddit
ExistingUsers == {1}
UserIDs == {0} \cup ExistingUsers
ExistingSubs == {1, 2}
SubIDs == {0} \cup ExistingSubs

VARIABLES
    postsByID,       \* cache: post ID -> post (Go map, its keys are the DOMAIN)
    subredditPosts,  \* subreddit ID -> sequence of post IDs (missing key = empty)
    postVotes,       \* post ID -> (voter ID -> IsUpvote)
    store,           \* mongodb.Posts: post ID -> document
    boot,            \* position of the start-up message chain
    accepted,        \* history: direction of the last accepted vote per (post, voter)
    nvotes,          \* history: number of votes that got past the duplicate check
    encoding,        \* post ID whose cached record a request handler is serialising, 0: none
    waiting,         \* the caller of the next dequeued message still waits on its future
    karmaTold        \* per post: its karma as the UpdateKarma messages sent tell it

vars == <<postsByID, subredditPosts, postVotes, store, boot, accepted, nvotes,
          encoding, waiting, karmaTold>>

\* the request handlers' side (Server.handlePost, handleVote, ...)
serverVars == <<encoding, waiting>>

cacheVars == <<postsByID, subredditPosts, postVotes>>

\* ------------------------------------------------------------ error kinds
ErrNotFound == "NotFound"
ErrDuplicate == "Duplicate"
ErrDatabase == "Database"
ErrUnauthorized == "Unauthorized"
ErrInvalidInput == "InvalidInput"

\* what a handler passes to context.Respond (kind "none": it never responds)
NoReply == [kind |-> "none", code |-> "", posts |-> <<>>, count |-> 0]
ErrorReply(code) == [kind |-> "error", code |-> code, posts |-> <<>>, count |-> 0]
PostReply(post) == [kind |-> "post", code |-> "", posts |-> <<post>>, count |-> 0]
PostsReply(posts) == [kind |-> "posts", code |-> "", posts |-> posts, count |-> 0]
\* the integer handleHealth reads out of the reply to GetCountsMsg
CountReply(n) == [kind |-> "count", code |-> "", posts |-> <<>>, count |-> n]

UpdateKarmaMsg(userID, delta) == [UserID |-> userID, Delta |-> delta]

\* ------------------------------------------------------------- the store
\* a post document; valid = FALSE is a record that fails cursor.Decode or
\* DocumentToModel
Doc(id, sub, author, up, down, karma, valid) ==
    [id |-> id, sub |-> sub, author |-> author, up |-> up, down |-> down,
     karma |-> karma, valid |-> valid]

\* the in-memory models.Post
Post(id, sub, author, up, down, karma) ==
    [id |-> id, sub |-> sub, author |-> author, up |-> up, down |-> down,
     karma |-> karma]

DocumentToModel(doc) ==
    Post(doc.id, doc.sub, doc.author, doc.up, doc.down, doc.karma)

ModelToDocument(post) ==
    Doc(post.id, post.sub, post.author, post.up, post.down, post.karma, TRUE)

\* the increasing sequence of the elements of a set of IDs
RECURSIVE SortedSeq(_)
SortedSeq(S) ==
    IF S = {} THEN <<>>
    ELSE LET m == CHOOSE x \in S : \A y \in S : x <= y
         IN  <<m>> \o SortedSeq(S \ {m})

\* $inc of upvotes, downvotes and karma on one document
UpdatePostVotes(st, id, upvoteDelta, downvoteDelta) ==
    [st EXCEPT ![id].up = @ + upvoteDelta,
               ![id].down = @ + downvoteDelta,
               ![id].karma = @ + (upvoteDelta - downvoteDelta)]

\* the documents of one subreddit that decode, in ID order
StoreSubredditPosts(st, sub) ==
    LET ids == {id \in DOMAIN st : st[id].sub = sub /\ st[id].valid}
        seq == SortedSeq(ids)
    IN  [i \in 1..Len(seq) |-> DocumentToModel(st[seq[i]])]

\* ------------------------------------------------------------ map helpers
\* m[k] = v on a Go map
Put(m, k, v) == [x \in DOMAIN m \cup {k} |-> IF x = k THEN v ELSE m[x]]

EmptyMap == [x \in {} |-> 0]

\* -------------------------------------------------------------- Init
\* the records present before the actor starts: posts of subreddit 1 without
\* votes, some of them malformed
InitDocs(id) ==
    {Doc(id, 1, a, 0, 0, 0, valid) : a \in ExistingUsers, valid \in BOOLEAN}

InitStores ==
    UNION {[ids -> UNION {InitDocs(id) : id \in ids}] : ids \in SUBSET PostIDs}

\* a new actor in front of one of the given stores
InitWith(stores) ==
    /\ postsByID = EmptyMap
    /\ subredditPosts = [s \in SubIDs |-> <<>>]
    /\ postVotes = EmptyMap
    /\ store \in {st \in stores : \A id \in DOMAIN st : st[id].id = id}
    /\ boot = "new"
    /\ accepted = [p \in PostIDs |-> [v \in VoterIDs |-> "none"]]
    /\ nvotes = 0
    /\ encoding = 0
    /\ waiting = TRUE
    /\ karmaTold = [p \in PostIDs |-> 0]

Init == InitWith(InitStores)

\* ------------------------------------------------------ handler outcomes
\* what one handler run leaves behind
Outcome(posts, votes, index, st, reply, outbox) ==
    [postsByID |-> posts, postVotes |-> votes, subredditPosts |-> index,
     store |-> st, reply |-> reply, outbox |-> outbox]

\* a handler run that touches neither cache nor store and sends nothing
Untouched(reply) ==
    Outcome(postsByID, postVotes, subredditPosts, store, reply, <<>>)

\* the state after the handler run
Apply(r) ==
    /\ postsByID' = r.postsByID
    /\ postVotes' = r.postVotes
    /\ subredditPosts' = r.subredditPosts
    /\ store' = r.store

\* ------------------------------------------------- start-up message chain
\* *actor.Started: sends initializePostActorMsg to itself
Started ==
    /\ boot = "new"
    /\ boot' = "initialize"
    /\ UNCHANGED <<cacheVars, store, accepted, nvotes, serverVars, karmaTold>>

\* *initializePostActorMsg: sends loadPostsFromDBMsg to itself
Initialize ==
    /\ boot = "initialize"
    /\ boot' = "load"
    /\ UNCHANGED <<cacheVars, store, accepted, nvotes, serverVars, karmaTold>>

\* the loop of handleLoadPosts over the cursor (documents in ID order); c is
\* the cache triple <<postsByID, postVotes, subredditPosts>>
RECURSIVE LoadLoop(_, _, _)
LoadLoop(c, st, ids) ==
    IF ids = <<>> THEN c
    ELSE LET doc == st[Head(ids)]
         IN  IF ~doc.valid
             THEN LoadLoop(c, st, Tail(ids))
             ELSE LET post == DocumentToModel(doc)
                  IN  LoadLoop(<<Put(c[1], post.id, post),
                                 Put(c[2], post.id, EmptyMap),
                                 [c[3] EXCEPT ![post.sub] = Append(@, post.id)]>>,
                               st, Tail(ids))

LoadOutcomeDespiteFindError(findOK) ==
    LET c == LoadLoop(<<postsByID, postVotes, subredditPosts>>, store,
                      SortedSeq(DOMAIN store))
    IN  Outcome(c[1], c[2], c[3], store, NoReply, <<>>)

\* handleLoadPosts: nothing happens when Posts.Find fails
LoadOutcome(findOK) ==
    IF ~findOK
    THEN Untouched(NoReply)
    ELSE LET c == LoadLoop(<<postsByID, postVotes, subredditPosts>>, store,
                           SortedSeq(DOMAIN store))
         IN  Outcome(c[1], c[2], c[3], store, NoReply, <<>>)

\* *loadPostsFromDBMsg
LoadStep(findOK) ==
    /\ boot = "load"
    /\ boot' = "loaded"
    /\ Apply(LoadOutcome(findOK))
    /\ UNCHANGED <<accepted, nvotes>>

handleLoadPosts(findOK) == LoadStep(findOK) /\ UNCHANGED <<serverVars, karmaTold>>

\* client messages are processed once the actor has started
Running == boot # "new"

\* ---------------------------------------------------------- CreatePost
CreateFaults == {"none", "getUser", "getSubreddit", "insert"}

\* GetUser / GetSubredditByID return an error for an ID that resolves to
\* nothing, and whenever the store operation itself fails
GetUserErr(authorID, fault) == authorID \notin ExistingUsers \/ fault = "getUser"

GetSubredditErr(subredditID, fault) ==
    subredditID \notin ExistingSubs \/ fault = "getSubreddit"

\* the error kind handleCreatePost answers a failed lookup with
CreateLookupErrCode == ErrDatabase

\* uuid.New(): an ID no post has
FreshIDs == PostIDs \ (DOMAIN store \cup DOMAIN postsByID)

NewPostID == CHOOSE id \in FreshIDs : \A other \in FreshIDs : id <= other

CreateCommitsDespiteInsertError(userErr, subErr, insertErr) == ~userErr /\ ~subErr

\* handleCreatePost reaches its cache update only past these three returns
CreateCommits(userErr, subErr, insertErr) == ~userErr /\ ~subErr /\ ~insertErr

CreateOutcomeWithoutLedger(authorID, subredditID, fault) ==
    LET userErr == GetUserErr(authorID, fault)
        subErr == GetSubredditErr(subredditID, fault)
        insertErr == fault = "insert"
    IN  IF userErr \/ subErr THEN Untouched(ErrorReply(CreateLookupErrCode))
        ELSE IF insertErr THEN Untouched(ErrorReply(ErrDatabase))
        ELSE LET newPost == Post(NewPostID, subredditID, authorID, 0, 0, 0)
             IN  Outcome(Put(postsByID, newPost.id, newPost), postVotes,
                         [subredditPosts EXCEPT ![subredditID] = Append(@, newPost.id)],
                         Put(store, newPost.id, ModelToDocument(newPost)),
                         PostReply(newPost), <<>>)

CreateOutcome(authorID, subredditID, fault) ==
    LET userErr == GetUserErr(authorID, fault)
        subErr == GetSubredditErr(subredditID, fault)
        insertErr == fault = "insert"
    IN  IF userErr THEN Untouched(ErrorReply(CreateLookupErrCode))
        ELSE IF subErr THEN Untouched(ErrorReply(CreateLookupErrCode))
        ELSE LET newPost == Post(NewPostID, subredditID, authorID, 0, 0, 0)
                 st == IF insertErr THEN store
                       ELSE Put(store, newPost.id, ModelToDocument(newPost))
                 reply == IF insertErr THEN ErrorReply(ErrDatabase)
                          ELSE PostReply(newPost)
             IN  IF CreateCommits(userErr, subErr, insertErr)
                 THEN Outcome(Put(postsByID, newPost.id, newPost),
                              Put(postVotes, newPost.id, EmptyMap),
                              [subredditPosts EXCEPT ![subredditID] = Append(@, newPost.id)],
                              st, reply, <<>>)
                 ELSE Outcome(postsByID, postVotes, subredditPosts, st, reply, <<>>)

\* the cache when handleCreatePost calls InsertOne (line 709): the error
\* return that follows the call (710-712) touches nothing
CreateAtStoreWrite(authorID, subredditID) ==
    LET r == CreateOutcome(authorID, subredditID, "insert")
    IN  <<r.postsByID, r.subredditPosts, r.postVotes>>

\* the message can be processed: the failing store operation is one the
\* handler gets to, and a post that gets as far as uuid.New() needs an unused
\* ID.  The handler returns on a failed author lookup before it reads
\* SubredditID, so such a message is drawn with one SubredditID only.
CreateEnabled(authorID, subredditID, fault) ==
    /\ Running
    /\ GetUserErr(authorID, fault) => subredditID = 0
    /\ fault = "getSubreddit" => ~GetUserErr(authorID, "none")
    /\ fault = "insert" =>
          ~GetUserErr(authorID, "none") /\ ~GetSubredditErr(subredditID, "none")
    /\ GetUserErr(authorID, fault) \/ GetSubredditErr(subredditID, fault)
          \/ FreshIDs # {}

CreateStep(authorID, subredditID, fault) ==
    /\ CreateEnabled(authorID, subredditID, fault)
    /\ Apply(CreateOutcome(authorID, subredditID, fault))
    /\ UNCHANGED <<boot, accepted, nvotes>>

handleCreatePost(authorID, subredditID, fault) ==
    CreateStep(authorID, subredditID, fault) /\ UNCHANGED <<serverVars, karmaTold>>

\* ------------------------------------------------------------- GetPost
GetPostFaults == {"none", "findOne"}

\* Posts.FindOne(..).Decode(&post): the document read straight into a Post
DecodePost(doc) == Post(doc.id, doc.sub, doc.author, doc.up, doc.down, doc.karma)

GetPostOutcomeWithoutBackfill(postID, fault) ==
    IF postID \in DOMAIN postsByID
    THEN Untouched(PostReply(postsByID[postID]))
    ELSE IF fault = "findOne" \/ (postID \in DOMAIN store /\ ~store[postID].valid)
    THEN Untouched(ErrorReply(ErrDatabase))
    ELSE IF postID \notin DOMAIN store
    THEN Untouched(ErrorReply(ErrNotFound))
    ELSE Untouched(PostReply(DecodePost(store[postID])))

GetPostOutcome(postID, fault) ==
    IF postID \in DOMAIN postsByID
    THEN Untouched(PostReply(postsByID[postID]))
    ELSE IF fault = "findOne" \/ (postID \in DOMAIN store /\ ~store[postID].valid)
    THEN Untouched(ErrorReply(ErrDatabase))
    ELSE IF postID \notin DOMAIN store
    THEN Untouched(ErrorReply(ErrNotFound))
    ELSE LET post == DecodePost(store[postID])
         IN  Outcome(Put(postsByID, post.id, post),
                     Put(postVotes, post.id, EmptyMap),
                     [subredditPosts EXCEPT ![post.sub] = Append(@, post.id)],
                     store, PostReply(post), <<>>)

\* a failing FindOne needs a cache miss: a hit never queries the store
GetPostEnabled(postID, fault) ==
    /\ Running
    /\ fault # "none" => postID \notin DOMAIN postsByID

GetPostStep(postID, fault) ==
    /\ GetPostEnabled(postID, fault)
    /\ Apply(GetPostOutcome(postID, fault))
    /\ UNCHANGED <<boot, accepted, nvotes>>

handleGetPost(postID, fault) == GetPostStep(postID, fault) /\ UNCHANGED <<serverVars, karmaTold>>

\* ---------------------------------------------------- GetSubredditPosts
GetSubredditPostsFaults == {"none", "find"}

\* the cache refresh loop of handleGetSubredditPosts; c = <<postsByID, postVotes>>
RECURSIVE RefreshLoop(_, _)
RefreshLoop(c, posts) ==
    IF posts = <<>> THEN c
    ELSE LET post == Head(posts)
         IN  RefreshLoop(<<Put(c[1], post.id, post),
                           IF post.id \in DOMAIN c[2] THEN c[2]
                           ELSE Put(c[2], post.id, EmptyMap)>>,
                         Tail(posts))

SubredditPostsReplyFromCache(fetched, subredditID) ==
    PostsReply([i \in 1..Len(subredditPosts[subredditID]) |->
                    postsByID[subredditPosts[subredditID][i]]])

\* what handleGetSubredditPosts responds with, given the posts it fetched
SubredditPostsReply(fetched, subredditID) == PostsReply(fetched)

GetSubredditPostsOutcome(subredditID, fault) ==
    LET posts == StoreSubredditPosts(store, subredditID)
    IN  IF fault # "none" THEN Untouched(ErrorReply(ErrDatabase))
        ELSE IF Len(posts) = 0 THEN Untouched(PostsReply(<<>>))
        ELSE LET c == RefreshLoop(<<postsByID, postVotes>>, posts)
             IN  Outcome(c[1], c[2], subredditPosts, store,
                         SubredditPostsReply(posts, subredditID), <<>>)

GetSubredditPostsStep(subredditID, fault) ==
    /\ Running
    /\ Apply(GetSubredditPostsOutcome(subredditID, fault))
    /\ UNCHANGED <<boot, accepted, nvotes>>

handleGetSubredditPosts(subredditID, fault) ==
    GetSubredditPostsStep(subredditID, fault) /\ UNCHANGED <<serverVars, karmaTold>>

\* ------------------------------------------------------------ VotePost
VoteFaults == {"none", "updateVotes"}

EnsureLedgerBeforeLookup(votes, postID, exists) ==
    IF postID \notin DOMAIN votes THEN Put(votes, postID, EmptyMap) ELSE votes

EnsureLedgerForStoredPost(votes, postID, exists) ==
    IF (exists \/ postID \in DOMAIN store) /\ postID \notin DOMAIN votes
    THEN Put(votes, postID, EmptyMap)
    ELSE votes

\* lines 790-792 run only past the "post not found" return
EnsureLedger(votes, postID, exists) ==
    IF exists /\ postID \notin DOMAIN votes THEN Put(votes, postID, EmptyMap)
    ELSE votes

VoteDeltasFlipOneSided(hasVoted, isUpvote) ==
    IF isUpvote THEN [up |-> 1, down |-> 0] ELSE [up |-> 0, down |-> 1]

VoteDeltasFirstVoteAsFlip(hasVoted, isUpvote) ==
    IF isUpvote THEN [up |-> 1, down |-> -1] ELSE [up |-> -1, down |-> 1]

\* upvoteDelta and downvoteDelta of a vote that is no duplicate
VoteDeltas(hasVoted, isUpvote) ==
    IF hasVoted
    THEN IF isUpvote THEN [up |-> 1, down |-> -1] ELSE [up |-> -1, down |-> 1]
    ELSE IF isUpvote THEN [up |-> 1, down |-> 0] ELSE [up |-> 0, down |-> 1]

KarmaIgnoresDownvotes(upvotes, downvotes) == upvotes

\* post.Karma = post.Upvotes - post.Downvotes
Karma(upvotes, downvotes) == upvotes - downvotes

UpdatePostVotesAlwaysFails(st, id, fault) == TRUE

\* UpdatePostVotes fails when the update fails or matches no document
UpdatePostVotesErr(st, id, fault) == fault = "updateVotes" \/ id \notin DOMAIN st

KarmaDeltaAlwaysUp(isUpvote) == 1

\* Delta of the UpdateKarmaMsg
KarmaDelta(isUpvote) == IF isUpvote THEN 1 ELSE -1

\* the vote gets past both early returns and reaches UpdatePostVotes
VoteReachesStore(postID, userID, isUpvote) ==
    /\ postID \in DOMAIN postsByID
    /\ LET votes == EnsureLedger(postVotes, postID, TRUE)
       IN  ~(userID \in DOMAIN votes[postID] /\ votes[postID][userID] = isUpvote)

VoteOutcome(postID, userID, isUpvote, fault) ==
    LET exists == postID \in DOMAIN postsByID
        votes == EnsureLedger(postVotes, postID, exists)
    IN  IF ~exists
        THEN Outcome(postsByID, votes, subredditPosts, store,
                     ErrorReply(ErrNotFound), <<>>)
        ELSE LET hasVoted == userID \in DOMAIN votes[postID]
             IN  IF hasVoted /\ votes[postID][userID] = isUpvote
                 THEN Outcome(postsByID, votes, subredditPosts, store,
                              ErrorReply(ErrDuplicate), <<>>)
                 ELSE LET d == VoteDeltas(hasVoted, isUpvote)
                          old == postsByID[postID]
                          up == old.up + d.up
                          down == old.down + d.down
                          post == [old EXCEPT !.up = up, !.down = down,
                                              !.karma = Karma(up, down)]
                          posts == [postsByID EXCEPT ![postID] = post]
                          ledger == [votes EXCEPT ![postID] = Put(@, userID, isUpvote)]
                      IN  IF UpdatePostVotesErr(store, post.id, fault)
                          THEN Outcome(posts, ledger, subredditPosts, store,
                                       ErrorReply(ErrDatabase), <<>>)
                          ELSE Outcome(posts, ledger, subredditPosts,
                                       UpdatePostVotes(store, post.id, d.up, d.down),
                                       PostReply(post),
                                       <<UpdateKarmaMsg(post.author, KarmaDelta(isUpvote))>>)

\* the cache when handleVote calls UpdatePostVotes (line 836): the error
\* return that follows the call (837-841) touches nothing, so it is the cache
\* that return leaves
VoteAtStoreWrite(postID, userID, isUpvote) ==
    LET r == VoteOutcome(postID, userID, isUpvote, "updateVotes")
    IN  <<r.postsByID, r.subredditPosts, r.postVotes>>

\* the vote was accepted: it was answered with the post
Accepted(r) == r.reply.kind = "post"

Direction(isUpvote) == IF isUpvote THEN "up" ELSE "down"

\* a failing UpdatePostVotes needs a vote that reaches it; a run processes
\* MaxVotes votes that do
VoteEnabled(postID, userID, isUpvote, fault) ==
    /\ Running
    /\ fault # "none" => VoteReachesStore(postID, userID, isUpvote)
    /\ VoteReachesStore(postID, userID, isUpvote) => nvotes < MaxVotes

VoteStep(postID, userID, isUpvote, fault) ==
    LET r == VoteOutcome(postID, userID, isUpvote, fault)
    IN  /\ VoteEnabled(postID, userID, isUpvote, fault)
        /\ Apply(r)
        /\ nvotes' = IF VoteReachesStore(postID, userID, isUpvote)
                     THEN nvotes + 1 ELSE nvotes
        /\ accepted' =
             [accepted EXCEPT ![postID][userID] =
                 IF Accepted(r) THEN Direction(isUpvote)
                 ELSE IF @ = Direction(isUpvote) THEN @ ELSE "none"]
        /\ UNCHANGED boot

handleVote(postID, userID, isUpvote, fault) ==
    VoteStep(postID, userID, isUpvote, fault) /\ UNCHANGED <<serverVars, karmaTold>>

\* ----------------------------------------------------------- GetCounts
\* GetCountsMsg has no case in Receive: the default branch logs and returns
GetCountsOutcome == Untouched(NoReply)

GetCountsStep ==
    /\ Running
    /\ Apply(GetCountsOutcome)
    /\ UNCHANGED <<boot, accepted, nvotes>>

handleGetCounts == GetCountsStep /\ UNCHANGED <<serverVars, karmaTold>>

\* ------------------------------------------- GetUserFeed, GetRecentPosts
\* the Limit of a feed request
Limits == {1, 2}

Take(seq, n) == SubSeq(seq, 1, IF n < Len(seq) THEN n ELSE Len(seq))

Reverse(seq) == [i \in 1..Len(seq) |-> seq[Len(seq) + 1 - i]]

\* the decodable posts of the store, oldest first
StorePosts(st) ==
    LET seq == SortedSeq({id \in DOMAIN st : st[id].valid})
    IN  [i \in 1..Len(seq) |-> DocumentToModel(st[seq[i]])]

\* MongoDB.GetUserFeedPosts: up to limit posts for the user
GetUserFeedPosts(st, userID, limit) == Take(StorePosts(st), limit)

GetUserFeedFaults == {"none", "feed"}

GetUserFeedOutcome(userID, limit, fault) ==
    IF fault # "none" THEN Untouched(ErrorReply(ErrDatabase))
    ELSE Untouched(PostsReply(GetUserFeedPosts(store, userID, limit)))

GetUserFeedStep(userID, limit, fault) ==
    /\ Running
    /\ Apply(GetUserFeedOutcome(userID, limit, fault))
    /\ UNCHANGED <<boot, accepted, nvotes>>

handleGetUserFeed(userID, limit, fault) ==
    GetUserFeedStep(userID, limit, fault) /\ UNCHANGED <<serverVars, karmaTold>>

GetRecentPostsFaults == {"none", "find", "cursor"}

GetRecentPostsOutcomeSilentOnCursorError(limit, fault) ==
    IF fault = "find" THEN Untouched(ErrorReply(ErrDatabase))
    ELSE IF fault = "cursor" THEN Untouched(NoReply)
    ELSE Untouched(PostsReply(Take(Reverse(StorePosts(store)), limit)))

\* newest first, at most limit documents; the loop skips the documents that
\* do not decode or convert
GetRecentPostsOutcome(limit, fault) ==
    IF fault = "find" THEN Untouched(ErrorReply(ErrDatabase))
    ELSE IF fault = "cursor" THEN Untouched(ErrorReply(ErrDatabase))
    ELSE Untouched(PostsReply(Take(Reverse(StorePosts(store)), limit)))

GetRecentPostsStep(limit, fault) ==
    /\ Running
    /\ Apply(GetRecentPostsOutcome(limit, fault))
    /\ UNCHANGED <<boot, accepted, nvotes>>

handleGetRecentPosts(limit, fault) ==
    GetRecentPostsStep(limit, fault) /\ UNCHANGED <<serverVars, karmaTold>>

\* ---------------------------------------------------------------- Next
Next ==
    \/ Started
    \/ Initialize
    \/ \E findOK \in BOOLEAN : handleLoadPosts(findOK)
    \/ \E authorID \in UserIDs, subredditID \in SubIDs, fault \in CreateFaults :
            handleCreatePost(authorID, subredditID, fault)
    \/ \E postID \in PostIDs, fault \in GetPostFaults :
            handleGetPost(postID, fault)
    \/ \E subredditID \in SubIDs, fault \in GetSubredditPostsFaults :
            handleGetSubredditPosts(subredditID, fault)
    \/ \E postID \in PostIDs, userID \in VoterIDs, isUpvote \in BOOLEAN,
          fault \in VoteFaults :
            handleVote(postID, userID, isUpvote, fault)
    \/ \E userID \in UserIDs, limit \in Limits, fault \in GetUserFeedFaults :
            handleGetUserFeed(userID, limit, fault)
    \/ \E limit \in Limits, fault \in GetRecentPostsFaults :
            handleGetRecentPosts(limit, fault)
    \/ handleGetCounts

Spec == Init /\ [][Next]_vars

\* ------------------------------------------------ runs on a healthy store
\* the actor's messages when no store operation fails
HealthyNext ==
    \/ Started
    \/ Initialize
    \/ handleLoadPosts(TRUE)
    \/ \E authorID \in UserIDs, subredditID \in SubIDs :
            handleCreatePost(authorID, subredditID, "none")
    \/ \E postID \in PostIDs : handleGetPost(postID, "none")
    \/ \E subredditID \in SubIDs : handleGetSubredditPosts(subredditID, "none")
    \/ \E postID \in PostIDs, userID \in VoterIDs, isUpvote \in BOOLEAN :
            handleVote(postID, userID, isUpvote, "none")
    \/ \E userID \in UserIDs, limit \in Limits :
            handleGetUserFeed(userID, limit, "none")
    \/ \E limit \in Limits : handleGetRecentPosts(limit, "none")
    \/ handleGetCounts

\* the records present before the actor starts, some already upvoted once
HealthyDocs(id) ==
    {Doc(id, 1, a, up, 0, up, valid) :
        a \in ExistingUsers, up \in {0, 1}, valid \in BOOLEAN}

HealthyStores ==
    UNION {[ids -> UNION {HealthyDocs(id) : id \in ids}] : ids \in SUBSET PostIDs}

HealthyInit == InitWith(HealthyStores)

HealthySpec == HealthyInit /\ [][HealthyNext]_vars

\* ------------------------------------------- the karma the author is told
\* Delta of the UpdateKarma messages of an outbox, summed
RECURSIVE SumDeltas(_)
SumDeltas(outbox) ==
    IF outbox = <<>> THEN 0 ELSE Head(outbox).Delta + SumDeltas(Tail(outbox))

\* after a handler run with outcome r on account of post votedPost (0: none):
\* a cached post whose ledger is empty is told as it is; the others by the
\* deltas sent for them (no UpdateKarma message is lost)
Tell(r, votedPost) ==
    karmaTold' =
        [p \in PostIDs |->
            IF p \notin DOMAIN r.postsByID THEN 0
            ELSE IF p \notin DOMAIN r.postVotes \/ r.postVotes[p] = EmptyMap
            THEN r.postsByID[p].karma
            ELSE karmaTold[p] + (IF p = votedPost THEN SumDeltas(r.outbox) ELSE 0)]

ToldLoad ==
    LoadStep(TRUE) /\ Tell(LoadOutcome(TRUE), 0) /\ UNCHANGED serverVars

ToldCreate(authorID, subredditID) ==
    /\ CreateStep(authorID, subredditID, "none")
    /\ Tell(CreateOutcome(authorID, subredditID, "none"), 0)
    /\ UNCHANGED serverVars

ToldGetPost(postID) ==
    /\ GetPostStep(postID, "none")
    /\ Tell(GetPostOutcome(postID, "none"), 0)
    /\ UNCHANGED serverVars

ToldGetSubredditPosts(subredditID) ==
    /\ GetSubredditPostsStep(subredditID, "none")
    /\ Tell(GetSubredditPostsOutcome(subredditID, "none"), 0)
    /\ UNCHANGED serverVars

ToldVote(postID, userID, isUpvote) ==
    /\ VoteStep(postID, userID, isUpvote, "none")
    /\ Tell(VoteOutcome(postID, userID, isUpvote, "none"), postID)
    /\ UNCHANGED serverVars

\* the actor on a healthy store, with the UpdateKarma messages it sends
KarmaNext ==
    \/ Started
    \/ Initialize
    \/ ToldLoad
    \/ \E authorID \in UserIDs, subredditID \in SubIDs :
            ToldCreate(authorID, subredditID)
    \/ \E postID \in PostIDs : ToldGetPost(postID)
    \/ \E subredditID \in SubIDs : ToldGetSubredditPosts(subredditID)
    \/ \E postID \in PostIDs, userID \in VoterIDs, isUpvote \in BOOLEAN :
            ToldVote(postID, userID, isUpvote)

KarmaSpec == HealthyInit /\ [][KarmaNext]_vars

\* ------------------------------------------- request handlers and actor
\* A request handler sends its message with RequestFuture(.., 5*time.Second)
\* and waits on future.Result(); it JSON-encodes what the actor responded.

CallerGoneIsSkipped(callerWaits) == callerWaits

\* the actor is handed every message of its mailbox, whether or not the
\* sender's future has expired: the request handler that times out returns
\* an HTTP error and withdraws nothing
Dequeued(callerWaits) == TRUE

\* the reply as the request handler sees it: nothing once its future expired
Delivered(reply, callerWaits) == IF callerWaits THEN reply ELSE NoReply

\* the record the request handlers serialise after a handler run that
\* responded with `posts` (pointers to cached records) and replaced the cached
\* records `replaced` by new ones
Encoding(posts, replaced) ==
    LET seen == Delivered(posts, waiting)
    IN  IF seen.kind \in {"post", "posts"} /\ seen.posts # <<>>
        THEN {seen.posts[i].id : i \in 1..Len(seen.posts)}
        ELSE IF encoding \in replaced THEN {0} ELSE {encoding}

\* HTTP status of Server.handlePost for what future.Result() gave it: 500 on a
\* timeout, otherwise the result is encoded as the body of a 200
handlePostStatus(reply) == IF reply.kind = "none" THEN 500 ELSE 200

\* HTTP status of Server.handleVote: it looks for an *utils.AppError
handleVoteStatus(reply) ==
    IF reply.kind = "none" THEN 500
    ELSE IF reply.kind = "error"
    THEN CASE reply.code = ErrNotFound -> 404
           [] reply.code = ErrUnauthorized -> 401
           [] reply.code = ErrDuplicate -> 409
           [] OTHER -> 500
    ELSE 200

\* HTTP status of Server.handleGetFeed
handleGetFeedStatus(reply) == IF reply.kind = "none" THEN 500 ELSE 200

\* future.Result() returns a timeout error while the message is still queued
Timeout ==
    /\ Running
    /\ waiting
    /\ waiting' = FALSE
    /\ UNCHANGED <<cacheVars, store, boot, accepted, nvotes, encoding, karmaTold>>

\* json.NewEncoder(w).Encode(result) has read the record
Encode ==
    /\ encoding # 0
    /\ encoding' = 0
    /\ UNCHANGED <<cacheVars, store, boot, accepted, nvotes, waiting, karmaTold>>

\* the bulk load puts a new record in the cache for every post it loads
ServeLoad(findOK) ==
    /\ LoadStep(findOK)
    /\ encoding' \in Encoding(NoReply,
                              IF findOK THEN {id \in DOMAIN store : store[id].valid}
                              ELSE {})
    /\ UNCHANGED <<waiting, karmaTold>>

ServeCreate(authorID, subredditID, fault) ==
    /\ Dequeued(waiting)
    /\ CreateStep(authorID, subredditID, fault)
    /\ encoding' \in Encoding(CreateOutcome(authorID, subredditID, fault).reply, {})
    /\ waiting' = TRUE
    /\ UNCHANGED karmaTold

ServeGetPost(postID, fault) ==
    /\ Dequeued(waiting)
    /\ GetPostStep(postID, fault)
    /\ encoding' \in Encoding(GetPostOutcome(postID, fault).reply, {})
    /\ waiting' = TRUE
    /\ UNCHANGED karmaTold

ServeGetSubredditPosts(subredditID, fault) ==
    LET reply == GetSubredditPostsOutcome(subredditID, fault).reply
    IN  /\ Dequeued(waiting)
        /\ GetSubredditPostsStep(subredditID, fault)
        /\ encoding' \in Encoding(reply, {reply.posts[i].id : i \in 1..Len(reply.posts)})
        /\ waiting' = TRUE
        /\ UNCHANGED karmaTold

ServeVote(postID, userID, isUpvote, fault) ==
    /\ Dequeued(waiting)
    /\ VoteReachesStore(postID, userID, isUpvote) => nvotes < MaxServerVotes
    /\ VoteStep(postID, userID, isUpvote, fault)
    /\ encoding' \in Encoding(VoteOutcome(postID, userID, isUpvote, fault).reply, {})
    /\ waiting' = TRUE
    /\ UNCHANGED karmaTold

\* feed and recent-posts replies are built from the store: they hold no
\* cached record
ServeGetUserFeed(userID, limit, fault) ==
    /\ Dequeued(waiting)
    /\ GetUserFeedStep(userID, limit, fault)
    /\ encoding' \in Encoding(NoReply, {})
    /\ waiting' = TRUE
    /\ UNCHANGED karmaTold

ServeGetRecentPosts(limit, fault) ==
    /\ Dequeued(waiting)
    /\ GetRecentPostsStep(limit, fault)
    /\ encoding' \in Encoding(NoReply, {})
    /\ waiting' = TRUE
    /\ UNCHANGED karmaTold

ServeGetCounts ==
    /\ Dequeued(waiting)
    /\ GetCountsStep
    /\ encoding' \in Encoding(GetCountsOutcome.reply, {})
    /\ waiting' = TRUE
    /\ UNCHANGED karmaTold

ServerNext ==
    \/ Started
    \/ Initialize
    \/ \E findOK \in BOOLEAN : ServeLoad(findOK)
    \/ Timeout
    \/ Encode
    \/ \E authorID \in UserIDs, subredditID \in SubIDs, fault \in CreateFaults :
            ServeCreate(authorID, subredditID, fault)
    \/ \E postID \in PostIDs, fault \in GetPostFaults :
            ServeGetPost(postID, fault)
    \/ \E subredditID \in SubIDs, fault \in GetSubredditPostsFaults :
            ServeGetSubredditPosts(subredditID, fault)
    \/ \E postID \in PostIDs, userID \in VoterIDs, isUpvote \in BOOLEAN,
          fault \in VoteFaults :
            ServeVote(postID, userID, isUpvote, fault)
    \/ \E userID \in UserIDs, limit \in Limits, fault \in GetUserFeedFaults :
            ServeGetUserFeed(userID, limit, fault)
    \/ \E limit \in Limits, fault \in GetRecentPostsFaults :
            ServeGetRecentPosts(limit, fault)
    \/ ServeGetCounts

\* the server in front of a store that holds no post yet
ServerInit == Init /\ store = EmptyMap

ServerSpec == ServerInit /\ [][ServerNext]_vars

\* =================================================================
\* Properties
\* =================================================================

\* C1: in every reachable state, every post resident in the cache has
\* karma = upvotes - downvotes, whatever messages were processed (accepted or
\* rejected votes, store failures, creations, reads), the store's records
\* satisfying it before the actor starts.
CacheKarmaMatchesCounters ==
    \A id \in DOMAIN postsByID :
        postsByID[id].karma = postsByID[id].up - postsByID[id].down

\* C1 witness: votes have been processed and one was rejected by a store
\* failure: a cached post has a non-zero karma that differs from its record's
CacheKarmaAfterRejectedVote ==
    \E id \in DOMAIN postsByID \cap DOMAIN store :
        /\ postsByID[id].karma # 0
        /\ postsByID[id].karma # store[id].karma
        /\ nvotes > 0

\* C2 (as claimed): once a vote of voter v on post p in one direction has been
\* accepted and v has sent no opposite vote on p since, the same vote is
\* answered Duplicate and changes neither the counters (cache, store) nor the
\* ledger, whatever the actor processed in between.
RepeatedVoteIsDuplicate ==
    \A p \in PostIDs, v \in VoterIDs, isUpvote \in BOOLEAN :
        (accepted[p][v] = Direction(isUpvote) /\ VoteEnabled(p, v, isUpvote, "none")) =>
            LET r == VoteOutcome(p, v, isUpvote, "none")
            IN  /\ r.reply = ErrorReply(ErrDuplicate)
                /\ r.postsByID = postsByID
                /\ r.postVotes = postVotes
                /\ r.store = store

\* C3 (as claimed): a vote whose UpdatePostVotes fails is answered with a
\* Database (storage) error and leaves the cached post and the vote ledger as
\* they were.
FailedVoteLeavesMemoryUnchanged ==
    \A p \in PostIDs, v \in VoterIDs, isUpvote \in BOOLEAN :
        VoteEnabled(p, v, isUpvote, "updateVotes") =>
            LET r == VoteOutcome(p, v, isUpvote, "updateVotes")
            IN  /\ r.reply = ErrorReply(ErrDatabase)
                /\ r.postsByID = postsByID
                /\ r.postVotes = postVotes

\* voter v has a record on cached post p in the direction opposite to isUpvote
IsFlip(p, v, isUpvote) ==
    /\ p \in DOMAIN postsByID
    /\ p \in DOMAIN postVotes
    /\ v \in DOMAIN postVotes[p]
    /\ postVotes[p][v] # isUpvote

\* voter v has no record on cached post p
IsFirstVote(p, v) ==
    /\ p \in DOMAIN postsByID
    /\ p \in DOMAIN postVotes => v \notin DOMAIN postVotes[p]

\* C4: an accepted vote flip moves both cached counters by one in opposite
\* directions (the new direction's up by 1, the old one's down by 1), shifts
\* the cached karma by exactly 2, and the store record's counters get the
\* same two deltas (its karma their difference) in that one update.
AcceptedFlipMovesBothCounters ==
    \A p \in PostIDs, v \in VoterIDs, isUpvote \in BOOLEAN :
        (IsFlip(p, v, isUpvote) /\ VoteEnabled(p, v, isUpvote, "none")) =>
            LET r == VoteOutcome(p, v, isUpvote, "none")
                du == IF isUpvote THEN 1 ELSE -1
            IN  Accepted(r) =>
                  /\ r.postsByID[p].up = postsByID[p].up + du
                  /\ r.postsByID[p].down = postsByID[p].down - du
                  /\ r.postsByID[p].karma = postsByID[p].karma + 2 * du
                  /\ r.store[p].up = store[p].up + du
                  /\ r.store[p].down = store[p].down - du
                  /\ r.store[p].karma = store[p].karma + 2 * du
                  /\ r.postVotes[p][v] = isUpvote

\* C4 witness: a voter's recorded vote is about to be flipped and the flip is
\* accepted
FlipIsAccepted ==
    \E p \in PostIDs, v \in VoterIDs, isUpvote \in BOOLEAN :
        /\ IsFlip(p, v, isUpvote)
        /\ accepted[p][v] = Direction(~isUpvote)
        /\ VoteEnabled(p, v, isUpvote, "none")
        /\ Accepted(VoteOutcome(p, v, isUpvote, "none"))

\* C5: an accepted first vote of a voter without a record on the post raises
\* exactly one cached counter by exactly one (upvotes for an upvote, downvotes
\* for a downvote), leaves the other one alone and records the voter's
\* direction; from counters (0,0) an upvote gives (1,0) and karma 1.
AcceptedFirstVoteMovesOneCounter ==
    \A p \in PostIDs, v \in VoterIDs, isUpvote \in BOOLEAN :
        (IsFirstVote(p, v) /\ VoteEnabled(p, v, isUpvote, "none")) =>
            LET r == VoteOutcome(p, v, isUpvote, "none")
                old == postsByID[p]
                new == r.postsByID[p]
            IN  Accepted(r) =>
                  /\ new.up = old.up + (IF isUpvote THEN 1 ELSE 0)
                  /\ new.down = old.down + (IF isUpvote THEN 0 ELSE 1)
                  /\ v \in DOMAIN r.postVotes[p]
                  /\ r.postVotes[p][v] = isUpvote
                  /\ (old.up = 0 /\ old.down = 0 /\ isUpvote) =>
                        (new.up = 1 /\ new.down = 0 /\ new.karma = 1)

\* C5 witness: a post with counters (0,0) gets a first upvote, which is
\* accepted
FirstUpvoteIsAccepted ==
    \E p \in PostIDs, v \in VoterIDs :
        /\ IsFirstVote(p, v)
        /\ postsByID[p].up = 0 /\ postsByID[p].down = 0
        /\ VoteEnabled(p, v, TRUE, "none")
        /\ Accepted(VoteOutcome(p, v, TRUE, "none"))

\* C6: a vote for a post ID that is neither in the cache nor in the store is
\* answered NotFound, changes no part of the cache and no store record, and
\* sends no UpdateKarma message.
VoteOnUnknownPostChangesNothing ==
    \A p \in PostIDs, v \in VoterIDs, isUpvote \in BOOLEAN :
        (p \notin DOMAIN postsByID \cup DOMAIN store /\ VoteEnabled(p, v, isUpvote, "none")) =>
            LET r == VoteOutcome(p, v, isUpvote, "none")
            IN  /\ r.reply = ErrorReply(ErrNotFound)
                /\ r.postsByID = postsByID
                /\ r.postVotes = postVotes
                /\ r.subredditPosts = subredditPosts
                /\ r.store = store
                /\ r.outbox = <<>>

\* C6 witness: the running actor gets a vote for an ID no post has, and
\* answers NotFound
VoteOnUnknownPost ==
    \E p \in PostIDs, v \in VoterIDs :
        /\ p \notin DOMAIN postsByID \cup DOMAIN store
        /\ VoteEnabled(p, v, TRUE, "none")
        /\ VoteOutcome(p, v, TRUE, "none").reply = ErrorReply(ErrNotFound)

\* C7 (as claimed): a CreatePost whose author ID resolves to no account, or
\* whose subreddit ID resolves to no subreddit, is answered with an error of
\* kind NotFound.
FailedLookupIsNotFound ==
    \A authorID \in UserIDs, subredditID \in SubIDs :
        (/\ CreateEnabled(authorID, subredditID, "none")
         /\ authorID \notin ExistingUsers \/ subredditID \notin ExistingSubs) =>
            CreateOutcome(authorID, subredditID, "none").reply = ErrorReply(ErrNotFound)

\* C8: every failing CreatePost (author lookup miss or failure, subreddit
\* lookup miss or failure, insert failure) is answered with an error, leaves
\* post map, vote ledger and subreddit index as they were and adds no record
\* to the store.
FailedCreateChangesNothing ==
    \A authorID \in UserIDs, subredditID \in SubIDs, fault \in CreateFaults :
        (/\ CreateEnabled(authorID, subredditID, fault)
         /\ \/ GetUserErr(authorID, fault)
            \/ GetSubredditErr(subredditID, fault)
            \/ fault = "insert") =>
            LET r == CreateOutcome(authorID, subredditID, fault)
            IN  /\ r.reply.kind = "error"
                /\ r.postsByID = postsByID
                /\ r.postVotes = postVotes
                /\ r.subredditPosts = subredditPosts
                /\ r.store = store

\* C8 witness: a CreatePost passes both lookups and fails on the insert
CreateFailsOnInsert ==
    \E authorID \in ExistingUsers, subredditID \in ExistingSubs :
        /\ CreateEnabled(authorID, subredditID, "insert")
        /\ CreateOutcome(authorID, subredditID, "insert").reply = ErrorReply(ErrDatabase)

\* C9 (as claimed): a GetCounts message is answered with the number of posts
\* resident in the cache.
GetCountsAnswersCacheSize ==
    Running => GetCountsOutcome.reply = CountReply(Cardinality(DOMAIN postsByID))

\* the records of subreddit s the store holds that decode
HeldFor(s) == {id \in DOMAIN store : store[id].sub = s /\ store[id].valid}

\* the reply lists each record of HeldFor(s) once, with the store's values
ListsStoreContent(reply, s) ==
    /\ reply.kind = "posts"
    /\ Len(reply.posts) = Cardinality(HeldFor(s))
    /\ \A id \in HeldFor(s) : \E i \in 1..Len(reply.posts) : reply.posts[i].id = id
    /\ \A i \in 1..Len(reply.posts) :
        LET post == reply.posts[i]
        IN  /\ post.id \in HeldFor(s)
            /\ post.sub = s
            /\ post.author = store[post.id].author
            /\ post.up = store[post.id].up
            /\ post.down = store[post.id].down
            /\ post.karma = store[post.id].karma

GetPostNotFoundIffNowhere ==
    \A postID \in PostIDs, fault \in GetPostFaults :
        GetPostEnabled(postID, fault) =>
            LET r == GetPostOutcome(postID, fault)
                cached == postID \in DOMAIN postsByID
                stored == postID \in DOMAIN store
            IN  /\ r.reply = ErrorReply(ErrNotFound) => ~cached /\ ~stored
                /\ (~cached /\ ~stored /\ fault = "none") =>
                      r.reply = ErrorReply(ErrNotFound)
                /\ cached =>
                      /\ r = Untouched(PostReply(postsByID[postID]))
                      /\ GetPostOutcome(postID, "findOne") = r
                /\ (~cached /\ stored /\ r.reply.kind = "post") =>
                      /\ r.reply.posts[1].id = postID
                      /\ r.reply.posts[1].up = store[postID].up
                      /\ r.reply.posts[1].down = store[postID].down
                      /\ postID \in DOMAIN r.postsByID
                      /\ r.postsByID[postID] = r.reply.posts[1]
                      /\ postID \in DOMAIN r.postVotes
                      /\ r.postVotes[postID] = EmptyMap
                /\ (~cached /\ stored /\ store[postID].valid /\ fault = "none") =>
                      r.reply.kind = "post"

\* C11 witness: a post that is in the store and not in the cache is asked for
\* and delivered
GetPostMissesCacheHitsStore ==
    \E postID \in PostIDs :
        /\ GetPostEnabled(postID, "none")
        /\ postID \notin DOMAIN postsByID
        /\ postID \in DOMAIN store
        /\ GetPostOutcome(postID, "none").reply.kind = "post"

\* C12: every accepted VotePost sends exactly one UpdateKarma message, for the
\* post's author, with delta +1 for an upvote and -1 for a downvote (a flip
\* included); every rejected VotePost (NotFound, Duplicate, Database) sends
\* none.  The voter's reply comes out of the same handler run as the send,
\* which waits for nothing.
AcceptedVoteSendsOneUpdateKarma ==
    \A p \in PostIDs, v \in VoterIDs, isUpvote \in BOOLEAN, fault \in VoteFaults :
        VoteEnabled(p, v, isUpvote, fault) =>
            LET r == VoteOutcome(p, v, isUpvote, fault)
            IN  IF r.reply.kind = "error"
                THEN /\ r.reply.code \in {ErrNotFound, ErrDuplicate, ErrDatabase}
                     /\ r.outbox = <<>>
                ELSE /\ r.reply = PostReply(r.postsByID[p])
                     /\ Len(r.outbox) = 1
                     /\ r.outbox[1].UserID = postsByID[p].author
                     /\ r.outbox[1].Delta = (IF isUpvote THEN 1 ELSE -1)

\* C12 witness: a downvote that flips an upvote is accepted and sends the
\* author a delta of -1
AcceptedDownvoteSendsMinusOne ==
    \E p \in PostIDs, v \in VoterIDs :
        /\ VoteEnabled(p, v, FALSE, "none")
        /\ IsFlip(p, v, FALSE)
        /\ LET r == VoteOutcome(p, v, FALSE, "none")
           IN  Accepted(r) /\ r.outbox = <<UpdateKarmaMsg(postsByID[p].author, -1)>>

\* C13 (as claimed): in CreatePost and VotePost no part of the cache (post
\* counters, vote ledger, post map, subreddit index) is modified before the
\* operation's store write: when the handler calls the store, the cache is
\* still what it was when the message was dequeued.
StoreWritePrecedesCacheMutation ==
    /\ \A authorID \in UserIDs, subredditID \in SubIDs :
          CreateEnabled(authorID, subredditID, "insert") =>
              CreateAtStoreWrite(authorID, subredditID) = cacheVars
    /\ \A p \in PostIDs, v \in VoterIDs, isUpvote \in BOOLEAN :
          (VoteEnabled(p, v, isUpvote, "none") /\ VoteReachesStore(p, v, isUpvote)) =>
              VoteAtStoreWrite(p, v, isUpvote) = cacheVars

\* C14 (as claimed): whenever the ledger holds vote records for a cached post,
\* the post's cached counters reflect them: its upvotes are at least the
\* number of upvote records in its ledger and its downvotes at least the
\* number of downvote records, whatever votes, store failures, GetPost and
\* GetSubredditPosts messages were processed.
CountersCoverLedger ==
    \A p \in DOMAIN postsByID \cap DOMAIN postVotes :
        /\ postsByID[p].up >=
              Cardinality({v \in DOMAIN postVotes[p] : postVotes[p][v]})
        /\ postsByID[p].down >=
              Cardinality({v \in DOMAIN postVotes[p] : ~postVotes[p][v]})

\* C15 (as claimed): vote records are never deleted: once the ledger holds a
\* record for (post, voter), it holds one for (post, voter) after every later
\* step, whatever message is processed (bulk load, GetPost and
\* GetSubredditPosts included); only its direction may change.
VoteRecordsAreNeverDeleted ==
    [][\A p \in DOMAIN postVotes : \A v \in DOMAIN postVotes[p] :
          p \in DOMAIN postVotes' /\ v \in DOMAIN postVotes'[p]]_vars

\* C16 (as claimed): cached post records are read and written by the actor's
\* message processing only: no request handler is still reading (serialising)
\* a cached record when the actor, processing a later message, writes to it.
NoHandlerReadsRecordBeingMutated ==
    \A p \in PostIDs, v \in VoterIDs, isUpvote \in BOOLEAN, fault \in VoteFaults :
        (/\ VoteEnabled(p, v, isUpvote, fault)
         /\ VoteReachesStore(p, v, isUpvote)
         /\ nvotes < MaxServerVotes) =>
            encoding # p

\* C19: a request whose caller has timed out is not cancelled: the actor is
\* handed every CreatePost and VotePost it could process for a waiting caller
\* also when the caller's future has expired, and processes it to the same
\* store write and cache update.
TimedOutRequestIsProcessed ==
    ~waiting =>
        /\ \A authorID \in UserIDs, subredditID \in SubIDs, fault \in CreateFaults :
              CreateEnabled(authorID, subredditID, fault) =>
                  ENABLED (/\ ServeCreate(authorID, subredditID, fault)
                           /\ Apply(CreateOutcome(authorID, subredditID, fault)))
        /\ \A p \in PostIDs, v \in VoterIDs, isUpvote \in BOOLEAN, fault \in VoteFaults :
              (/\ VoteEnabled(p, v, isUpvote, fault)
               /\ VoteReachesStore(p, v, isUpvote) => nvotes < MaxServerVotes) =>
                  ENABLED (/\ ServeVote(p, v, isUpvote, fault)
                           /\ Apply(VoteOutcome(p, v, isUpvote, fault)))

\* C19 witness: the caller of a queued VotePost has observed its timeout, and
\* the vote is then accepted: store record and cached post change
LateVoteCommits ==
    \E p \in PostIDs, v \in VoterIDs, isUpvote \in BOOLEAN :
        /\ ~waiting
        /\ VoteEnabled(p, v, isUpvote, "none")
        /\ nvotes < MaxServerVotes
        /\ ENABLED ServeVote(p, v, isUpvote, "none")
        /\ LET r == VoteOutcome(p, v, isUpvote, "none")
           IN  Accepted(r) /\ r.store # store /\ r.postsByID # postsByID

IsOneReply(reply) ==
    \/ reply.kind \in {"post", "posts"}
    \/ reply.kind = "error" /\ reply.code \in {ErrNotFound, ErrDuplicate, ErrDatabase}

\* C20: every CreatePost, GetPost, GetSubredditPosts, VotePost, GetUserFeed
\* and GetRecentPosts message the actor dequeues is answered on every handler
\* path, store failures included, with one reply: a result or a structured
\* error value; no path returns without replying.
EveryMessageIsAnswered ==
    /\ \A authorID \in UserIDs, subredditID \in SubIDs, fault \in CreateFaults :
          CreateEnabled(authorID, subredditID, fault) =>
              IsOneReply(CreateOutcome(authorID, subredditID, fault).reply)
    /\ \A postID \in PostIDs, fault \in GetPostFaults :
          GetPostEnabled(postID, fault) =>
              IsOneReply(GetPostOutcome(postID, fault).reply)
    /\ \A subredditID \in SubIDs, fault \in GetSubredditPostsFaults :
          Running => IsOneReply(GetSubredditPostsOutcome(subredditID, fault).reply)
    /\ \A p \in PostIDs, v \in VoterIDs, isUpvote \in BOOLEAN, fault \in VoteFaults :
          VoteEnabled(p, v, isUpvote, fault) =>
              IsOneReply(VoteOutcome(p, v, isUpvote, fault).reply)
    /\ \A userID \in UserIDs, limit \in Limits, fault \in GetUserFeedFaults :
          Running => IsOneReply(GetUserFeedOutcome(userID, limit, fault).reply)
    /\ \A limit \in Limits, fault \in GetRecentPostsFaults :
          Running => IsOneReply(GetRecentPostsOutcome(limit, fault).reply)

\* C20 witness: the running actor holds a post, so that every handler has its
\* success and its error paths open (a duplicate vote among them)
HandlersHaveAllPathsOpen ==
    \E p \in DOMAIN postsByID \cap DOMAIN store, v \in VoterIDs :
        /\ Running
        /\ VoteOutcome(p, v, TRUE, "none").reply = ErrorReply(ErrDuplicate)
        /\ nvotes < MaxVotes
        /\ GetRecentPostsOutcome(1, "none").reply.posts # <<>>
        /\ GetRecentPostsOutcome(1, "cursor").reply = ErrorReply(ErrDatabase)

\* the failure status the gateway owes an error kind
FailureStatus(code) ==
    CASE code = ErrNotFound -> 404
      [] code = ErrDuplicate -> 409
      [] code = ErrUnauthorized -> 401
      [] code = ErrInvalidInput -> 400
      [] OTHER -> 500

\* C21 (as claimed): on the create-post, vote and feed endpoints an error
\* value the actor replies with is mapped to its failure status (NotFound 404,
\* Duplicate 409, Unauthorized 401, InvalidInput 400, any other kind 500) and
\* never reaches the client as a success.
ActorErrorsMapToFailureStatus ==
    /\ \A authorID \in UserIDs, subredditID \in SubIDs, fault \in CreateFaults :
          CreateEnabled(authorID, subredditID, fault) =>
              LET reply == CreateOutcome(authorID, subredditID, fault).reply
              IN  reply.kind = "error" =>
                      handlePostStatus(reply) = FailureStatus(reply.code)
    /\ \A p \in PostIDs, v \in VoterIDs, isUpvote \in BOOLEAN, fault \in VoteFaults :
          VoteEnabled(p, v, isUpvote, fault) =>
              LET reply == VoteOutcome(p, v, isUpvote, fault).reply
              IN  reply.kind = "error" =>
                      handleVoteStatus(reply) = FailureStatus(reply.code)
    /\ \A userID \in UserIDs, limit \in Limits, fault \in GetUserFeedFaults :
          Running =>
              LET reply == GetUserFeedOutcome(userID, limit, fault).reply
              IN  reply.kind = "error" =>
                      handleGetFeedStatus(reply) = FailureStatus(reply.code)

\* C22 (as claimed): in every reachable state no subreddit's index holds the
\* same post ID twice, however client messages interleave with the
\* initialization and bulk-load messages that follow the start.
IndexHasNoDuplicates ==
    \A sub \in SubIDs :
        \A i, j \in 1..Len(subredditPosts[sub]) :
            i # j => subredditPosts[sub][i] # subredditPosts[sub][j]

\* C23 (as claimed): in every reachable state every cached post has its ID in
\* the index of its own subreddit, and every ID of an index is the ID of a
\* cached post.
CacheAndIndexAgree ==
    /\ \A id \in DOMAIN postsByID :
          \E i \in 1..Len(subredditPosts[postsByID[id].sub]) :
              subredditPosts[postsByID[id].sub][i] = id
    /\ \A sub \in SubIDs :
          \A i \in 1..Len(subredditPosts[sub]) :
              subredditPosts[sub][i] \in DOMAIN postsByID

\* C24 (as claimed): the upvotes and downvotes of every post are never
\* negative, in the cache and in the store, after any votes, flips, store
\* failures and cache refreshes, the store's records starting non-negative.
CountersAreNeverNegative ==
    /\ \A id \in DOMAIN postsByID :
          postsByID[id].up >= 0 /\ postsByID[id].down >= 0
    /\ \A id \in DOMAIN store :
          store[id].up >= 0 /\ store[id].down >= 0

\* C25: when no store operation fails, between messages every cached post has
\* the upvotes, downvotes and karma of its record in the store.
CacheMatchesStore ==
    \A id \in DOMAIN postsByID :
        /\ id \in DOMAIN store
        /\ postsByID[id].up = store[id].up
        /\ postsByID[id].down = store[id].down
        /\ postsByID[id].karma = store[id].karma

\* C25 witness: votes were accepted, a flip among them, and a cached post
\* carries their count
CacheMatchesStoreAfterFlip ==
    \E id \in DOMAIN postsByID \cap DOMAIN store :
        /\ nvotes >= 2
        /\ postsByID[id].up + postsByID[id].down > 0
        /\ postsByID[id].up = store[id].up

\* C26 (as claimed): no UpdateKarma message being lost, for every cached post
\* the deltas of the UpdateKarma messages sent on its account add up to the
\* change of its karma since it entered the cache with an empty ledger, under
\* any sequence of first votes and flips.
AuthorKarmaInStepWithPostKarma ==
    \A p \in DOMAIN postsByID : karmaTold[p] = postsByID[p].karma

\* C27: VotePost looks for the post in the cache only: a vote for a post that
\* is in the store and not in the cache (the bulk load has not run, or has
\* failed) is answered NotFound, writes nothing to the store, sends no
\* UpdateKarma message and leaves the cache as it was.
VoteOnUncachedPostIsNotFound ==
    \A p \in PostIDs, v \in VoterIDs, isUpvote \in BOOLEAN, fault \in VoteFaults :
        (/\ p \in DOMAIN store
         /\ p \notin DOMAIN postsByID
         /\ VoteEnabled(p, v, isUpvote, fault)) =>
            LET r == VoteOutcome(p, v, isUpvote, fault)
            IN  /\ r.reply = ErrorReply(ErrNotFound)
                /\ r.store = store
                /\ r.outbox = <<>>
                /\ r.postsByID = postsByID
                /\ r.postVotes = postVotes
                /\ r.subredditPosts = subredditPosts

\* C27 witness: the bulk load has run and failed, the store holds a
\* well-formed post the cache does not, and a vote for it is answered NotFound
VoteAfterFailedLoad ==
    \E p \in DOMAIN store, v \in VoterIDs :
        /\ boot = "loaded"
        /\ store[p].valid
        /\ p \notin DOMAIN postsByID
        /\ VoteEnabled(p, v, TRUE, "none")
        /\ VoteOutcome(p, v, TRUE, "none").reply = ErrorReply(ErrNotFound)

====
